---- MODULE Spec2Model ----
(***************************************************************************)
(* Help desk ticket system (helpdesk_system.py).                           *)
(*                                                                         *)
(* The two JSON files are the variables tickets and users; every           *)
(* operation loads the whole collection, changes a copy and saves it.      *)
(* Text is a sequence of one-character strings, so that strip(), lower(),  *)
(* the id format and substring search are computed as the code does.       *)
(***************************************************************************)
EXTENDS Integers, Sequences, FiniteSets, TLC

VARIABLES tickets, users, CURRENT_USER, pc, now, last, issued, inflight, reported,
          torn

vars ==
    <<tickets, users, CURRENT_USER, pc, now, last, issued, inflight, reported,
      torn>>

\* ------------------------------------------------------------------ bounds
\* Most tickets in tickets.json (create is not offered beyond it).
MaxTickets == 2
\* Most comments on one ticket.
MaxComments == 2
\* Most readings of the clock in one run (each new ticket and each comment
\* reads it once).
MaxClock == 3

\* The operations that two processes sharing the store start between them.
MaxSharedOps == 3

\* The longest list handed to sort_tickets and search_tickets on their own.
MaxListLen == 3

\* -------------------------------------------------------------------- text
EmptyText == <<>>

Whitespace == {" ", "\t"}

UpperChars == <<"A","B","C","D","E","F","G","H","I","J","K","L","M",
                "N","O","P","Q","R","S","T","U","V","W","X","Y","Z">>

LowerChars == <<"a","b","c","d","e","f","g","h","i","j","k","l","m",
                "n","o","p","q","r","s","t","u","v","w","x","y","z">>

DigitChars == <<"0","1","2","3","4","5","6","7","8","9">>

\* The characters of the model in code point order.
CodePoints == <<"\t", " ", "-">> \o DigitChars \o UpperChars \o <<"_">> \o LowerChars

Ord(c) == CHOOSE i \in 1..Len(CodePoints) : CodePoints[i] = c

\* Each character's lower case: the upper case letters change, the rest stay.
LowerChar ==
    [c \in {CodePoints[i] : i \in 1..Len(CodePoints)} |->
        IF \E i \in 1..Len(UpperChars) : UpperChars[i] = c
        THEN LowerChars[CHOOSE i \in 1..Len(UpperChars) : UpperChars[i] = c]
        ELSE c]

\* str.lower()
Lower(s) == [i \in 1..Len(s) |-> LowerChar[s[i]]]

RECURSIVE LStrip(_)
LStrip(s) ==
    IF s # <<>> /\ Head(s) \in Whitespace THEN LStrip(Tail(s)) ELSE s

RECURSIVE RStrip(_)
RStrip(s) ==
    IF s # <<>> /\ s[Len(s)] \in Whitespace
    THEN RStrip(SubSeq(s, 1, Len(s) - 1))
    ELSE s

\* str.strip()
Strip(s) == RStrip(LStrip(s))

\* needle in hay
Contains(hay, needle) ==
    \E i \in 0..(Len(hay) - Len(needle)) :
        SubSeq(hay, i + 1, i + Len(needle)) = needle

\* Python's < on str
RECURSIVE TextLess(_, _)
TextLess(a, b) ==
    IF b = <<>> THEN FALSE
    ELSE IF a = <<>> THEN TRUE
    ELSE IF Head(a) = Head(b) THEN TextLess(Tail(a), Tail(b))
    ELSE Ord(Head(a)) < Ord(Head(b))

RECURSIVE Digits(_)
Digits(n) ==
    IF n < 10 THEN <<DigitChars[n + 1]>>
    ELSE Digits(n \div 10) \o <<DigitChars[(n % 10) + 1]>>

RECURSIVE ZeroPad(_, _)
ZeroPad(s, width) ==
    IF Len(s) >= width THEN s ELSE ZeroPad(<<"0">> \o s, width)

\* Width of the number in a ticket id.
IdWidth == 3

\* f"TKT-{next_number:03d}"
FormatId(n) == <<"T","K","T","-">> \o ZeroPad(Digits(n), IdWidth)

RECURSIVE ParseDigits(_, _)
ParseDigits(s, acc) ==
    IF s = <<>> THEN acc
    ELSE ParseDigits(Tail(s),
             10 * acc + ((CHOOSE d \in 1..10 : DigitChars[d] = Head(s)) - 1))

\* The number a ticket id carries.
IdNumber(id) == ParseDigits(SubSeq(id, 5, Len(id)), 0)

\* ------------------------------------------------------------ literal text
admin == <<"a","d","m","i","n">>
user == <<"u","s","e","r">>
tech == <<"t","e","c","h">>
user1 == <<"u","s","e","r","1">>
user2 == <<"u","s","e","r","2">>
user3 == <<"u","s","e","r","3">>
admin123 == <<"a","d","m","i","n","1","2","3">>
tech123 == <<"t","e","c","h","1","2","3">>
user123 == <<"u","s","e","r","1","2","3">>
low == <<"l","o","w">>
medium == <<"m","e","d","i","u","m">>
high == <<"h","i","g","h">>
new == <<"n","e","w">>
in_progress == <<"i","n","_","p","r","o","g","r","e","s","s">>
resolved == <<"r","e","s","o","l","v","e","d">>
yes == <<"y">>

valid_priorities == {low, medium, high}

valid_statuses == {new, in_progress, resolved}

\* What get_ticket and authenticate_user return when nothing matches.
None == [none |-> TRUE]

\* ----------------------------------------------------------- ticket store
default_users ==
    << [username |-> admin, password |-> admin123, role |-> admin],
       [username |-> tech,  password |-> tech123,  role |-> admin],
       [username |-> user1, password |-> user123,  role |-> user],
       [username |-> user2, password |-> user123,  role |-> user] >>

\* Index of the first ticket with this id, 0 when there is none: the loop
\* "for ticket in tickets: if ticket['id'] == ticket_id".
FindTicket(tks, ticket_id) ==
    IF \E i \in 1..Len(tks) : tks[i].id = ticket_id
    THEN CHOOSE i \in 1..Len(tks) :
             /\ tks[i].id = ticket_id
             /\ \A j \in 1..(i - 1) : tks[j].id # ticket_id
    ELSE 0

get_ticket(tks, ticket_id) ==
    IF FindTicket(tks, ticket_id) = 0 THEN None
    ELSE tks[FindTicket(tks, ticket_id)]

\* list.remove(x): drops the first element equal to x.
ListRemove(seq, x) ==
    LET k == CHOOSE i \in 1..Len(seq) :
                 seq[i] = x /\ \A j \in 1..(i - 1) : seq[j] # x
    IN  SubSeq(seq, 1, k - 1) \o SubSeq(seq, k + 1, Len(seq))

\* _generate_ticket_id that numbers from the count of tickets, without the + 1.
_generate_ticket_id_FromCount(tks) == <<"T", "K", "T", "-">> \o ZeroPad(Digits(Len(tks)), IdWidth)

_generate_ticket_id(tks) == FormatId(Len(tks) + 1)

Ticket(tks, title, description, priority, reporter, clock) ==
    [ id           |-> _generate_ticket_id(tks),
      title        |-> title,
      description  |-> description,
      priority     |-> priority,
      reporter     |-> reporter,
      status       |-> new,
      created_date |-> clock,
      comments     |-> <<>> ]

\* create_ticket with the priority looked at only after the ticket is saved.
create_ticket_SavesFirst(tks, title, description, priority, reporter, clock) ==
    [tickets |-> Append(tks, Ticket(tks, title, description, priority,
                                    reporter, clock)),
     result  |-> IF priority \notin valid_priorities
                 THEN "InvalidPriority" ELSE "Created"]

create_ticket(tks, title, description, priority, reporter, clock) ==
    IF priority \notin valid_priorities
    THEN [tickets |-> tks, result |-> "InvalidPriority"]
    ELSE [tickets |-> Append(tks, Ticket(tks, title, description, priority,
                                         reporter, clock)),
          result  |-> "Created"]

\* update_ticket_status that looks the ticket up before it checks the status.
update_ticket_status_LooksUpFirst(tks, ticket_id, new_status) ==
    IF FindTicket(tks, ticket_id) = 0
    THEN [tickets |-> tks, result |-> "NotFound"]
    ELSE IF new_status \notin valid_statuses
    THEN [tickets |-> tks, result |-> "InvalidStatus"]
    ELSE [tickets |-> [tks EXCEPT ![FindTicket(tks, ticket_id)].status = new_status],
          result  |-> "Updated"]

\* update_ticket_status that writes the new status under the key "priority".
update_ticket_status_WrongKey(tks, ticket_id, new_status) ==
    IF new_status \notin valid_statuses
    THEN [tickets |-> tks, result |-> "InvalidStatus"]
    ELSE IF FindTicket(tks, ticket_id) = 0
    THEN [tickets |-> tks, result |-> "NotFound"]
    ELSE [tickets |-> [tks EXCEPT ![FindTicket(tks, ticket_id)].priority = new_status],
          result  |-> "Updated"]

\* update_ticket_status without the check of the new status.
update_ticket_status_Unvalidated(tks, ticket_id, new_status) ==
    IF FindTicket(tks, ticket_id) = 0
    THEN [tickets |-> tks, result |-> "NotFound"]
    ELSE [tickets |-> [tks EXCEPT ![FindTicket(tks, ticket_id)].status = new_status],
          result  |-> "Updated"]

update_ticket_status(tks, ticket_id, new_status) ==
    IF new_status \notin valid_statuses
    THEN [tickets |-> tks, result |-> "InvalidStatus"]
    ELSE IF FindTicket(tks, ticket_id) = 0
    THEN [tickets |-> tks, result |-> "NotFound"]
    ELSE [tickets |-> [tks EXCEPT ![FindTicket(tks, ticket_id)].status = new_status],
          result  |-> "Updated"]

\* add_comment without the step from new to in_progress.
add_comment_KeepsStatus(tks, ticket_id, username, message, clock) ==
    IF FindTicket(tks, ticket_id) = 0
    THEN [tickets |-> tks, result |-> "NotFound"]
    ELSE [tickets |->
              [tks EXCEPT ![FindTicket(tks, ticket_id)].comments =
                  Append(@, [user |-> username, message |-> message,
                             timestamp |-> clock])],
          result |-> "CommentAdded"]

\* add_comment that puts the new comment in front of the others.
add_comment_Prepends(tks, ticket_id, username, message, clock) ==
    IF FindTicket(tks, ticket_id) = 0
    THEN [tickets |-> tks, result |-> "NotFound"]
    ELSE [tickets |->
              [tks EXCEPT ![FindTicket(tks, ticket_id)].comments =
                              <<[user |-> username, message |-> message,
                                 timestamp |-> clock]>> \o @,
                          ![FindTicket(tks, ticket_id)].status =
                              IF @ = new THEN in_progress ELSE @],
          result |-> "CommentAdded"]

add_comment(tks, ticket_id, username, message, clock) ==
    IF FindTicket(tks, ticket_id) = 0
    THEN [tickets |-> tks, result |-> "NotFound"]
    ELSE LET i == FindTicket(tks, ticket_id)
             comment == [user |-> username, message |-> message,
                         timestamp |-> clock]
         IN  [tickets |->
                  [tks EXCEPT ![i].comments = Append(@, comment),
                              ![i].status =
                                  IF @ = new THEN in_progress ELSE @],
              result |-> "CommentAdded"]

\* delete_ticket that does not wait for the confirmation.
delete_ticket_Unconfirmed(tks, cur, ticket_id, confirm) ==
    IF FindTicket(tks, ticket_id) = 0
    THEN [tickets |-> tks, result |-> "NotFound"]
    ELSE IF /\ cur.role # admin
            /\ tks[FindTicket(tks, ticket_id)].reporter # cur.username
    THEN [tickets |-> tks, result |-> "Forbidden"]
    ELSE [tickets |-> ListRemove(tks, tks[FindTicket(tks, ticket_id)]),
          result |-> "Deleted"]

delete_ticket(tks, cur, ticket_id, confirm) ==
    IF FindTicket(tks, ticket_id) = 0
    THEN [tickets |-> tks, result |-> "NotFound"]
    ELSE LET ticket == tks[FindTicket(tks, ticket_id)]
         IN  IF cur.role # admin /\ ticket.reporter # cur.username
             THEN [tickets |-> tks, result |-> "Forbidden"]
             ELSE IF Lower(Strip(confirm)) # yes
             THEN [tickets |-> tks, result |-> "Cancelled"]
             ELSE [tickets |-> ListRemove(tks, ticket), result |-> "Deleted"]

\* --------------------------------------------------------- search and sort
\* search_tickets that compares without lower().
search_tickets_CaseSensitive(tks, keyword) ==
    IF Strip(keyword) = <<>> THEN tks
    ELSE LET Match(ticket) ==
                 \/ Contains(ticket.title, keyword)
                 \/ Contains(ticket.description, keyword)
                 \/ Contains(ticket.reporter, keyword)
                 \/ Contains(ticket.id, keyword)
         IN  SelectSeq(tks, Match)

search_tickets(tks, keyword) ==
    IF Strip(keyword) = <<>> THEN tks
    ELSE LET Match(ticket) ==
                 \/ Contains(Lower(ticket.title), Lower(keyword))
                 \/ Contains(Lower(ticket.description), Lower(keyword))
                 \/ Contains(Lower(ticket.reporter), Lower(keyword))
                 \/ Contains(Lower(ticket.id), Lower(keyword))
         IN  SelectSeq(tks, Match)

priority_order == (high :> 0) @@ (medium :> 1) @@ (low :> 2)

status_order == (new :> 0) @@ (in_progress :> 1) @@ (resolved :> 2)

SortFields == {"date", "priority", "status", "title"}

\* key(a) < key(b) for the key function sort_tickets picks.
KeyLess(sort_by, a, b) ==
    CASE sort_by = "date"     -> a.created_date < b.created_date
      [] sort_by = "priority" -> priority_order[a.priority] < priority_order[b.priority]
      [] sort_by = "status"   -> status_order[a.status] < status_order[b.status]
      [] sort_by = "title"    -> TextLess(Lower(a.title), Lower(b.title))

\* sorted(..., key, reverse): stable in both directions; x goes in front of the
\* first element it must precede.
RECURSIVE Sorted(_, _, _)
Sorted(seq, sort_by, reverse) ==
    IF seq = <<>> THEN <<>>
    ELSE LET done == Sorted(SubSeq(seq, 1, Len(seq) - 1), sort_by, reverse)
             x == seq[Len(seq)]
             Before(e) == IF reverse THEN KeyLess(sort_by, e, x)
                                     ELSE KeyLess(sort_by, x, e)
             k == IF \E i \in 1..Len(done) : Before(done[i])
                  THEN CHOOSE i \in 1..Len(done) :
                           Before(done[i]) /\ \A j \in 1..(i - 1) : ~Before(done[j])
                  ELSE Len(done) + 1
         IN  SubSeq(done, 1, k - 1) \o <<x>> \o SubSeq(done, k, Len(done))

\* sort_tickets that sorts ascending and turns the result round for descending.
sort_tickets_TurnsRound(tks, sort_by, ascending) ==
    IF tks = <<>> THEN tks
    ELSE IF sort_by \notin SortFields THEN tks
    ELSE IF ascending THEN Sorted(tks, sort_by, FALSE)
    ELSE [i \in 1..Len(tks) |-> Sorted(tks, sort_by, FALSE)[Len(tks) + 1 - i]]

sort_tickets(tks, sort_by, ascending) ==
    IF tks = <<>> THEN tks
    ELSE IF sort_by \notin SortFields THEN tks
    ELSE Sorted(tks, sort_by, ~ascending)

\* ------------------------------------------------------------------ users
authenticate_user(usrs, username, password) ==
    LET hit == {i \in 1..Len(usrs) :
                   usrs[i].username = Strip(username) /\ usrs[i].password = Strip(password)}
    IN  IF hit = {} THEN None
        ELSE usrs[CHOOSE i \in hit : \A j \in hit : i <= j]

\* register_user without the search for the username.
register_user_Unsearched(usrs, cur, username, password, role) ==
    IF cur.role # admin
    THEN [users |-> usrs, result |-> "AdminOnly"]
    ELSE IF Lower(Strip(role)) \notin {admin, user}
    THEN [users |-> usrs, result |-> "InvalidRole"]
    ELSE [users |-> Append(usrs, [username |-> Strip(username),
                                  password |-> Strip(password),
                                  role     |-> Lower(Strip(role))]),
          result |-> "Registered"]

register_user(usrs, cur, username, password, role) ==
    IF cur.role # admin
    THEN [users |-> usrs, result |-> "AdminOnly"]
    ELSE IF Lower(Strip(role)) \notin {admin, user}
    THEN [users |-> usrs, result |-> "InvalidRole"]
    ELSE IF \E i \in 1..Len(usrs) : usrs[i].username = Strip(username)
    THEN [users |-> usrs, result |-> "UsernameExists"]
    ELSE [users |-> Append(usrs, [username |-> Strip(username),
                                  password |-> Strip(password),
                                  role     |-> Lower(Strip(role))]),
          result |-> "Registered"]

\* delete_user without the check of the role.
delete_user_AnyRole(usrs, cur, username, confirm) ==
    IF Strip(username) = cur.username
    THEN [users |-> usrs, result |-> "OwnAccount"]
    ELSE IF ~ \E i \in 1..Len(usrs) : usrs[i].username = Strip(username)
    THEN [users |-> usrs, result |-> "UserNotFound"]
    ELSE IF Lower(Strip(confirm)) # yes
    THEN [users |-> usrs, result |-> "Cancelled"]
    ELSE [users |->
              ListRemove(usrs, usrs[CHOOSE i \in 1..Len(usrs) :
                  /\ usrs[i].username = Strip(username)
                  /\ \A j \in 1..(i - 1) : usrs[j].username # Strip(username)]),
          result |-> "UserDeleted"]

\* delete_user without the check for the own account.
delete_user_OwnAccountToo(usrs, cur, username, confirm) ==
    IF cur.role # admin
    THEN [users |-> usrs, result |-> "AdminOnly"]
    ELSE IF ~ \E i \in 1..Len(usrs) : usrs[i].username = Strip(username)
    THEN [users |-> usrs, result |-> "UserNotFound"]
    ELSE IF Lower(Strip(confirm)) # yes
    THEN [users |-> usrs, result |-> "Cancelled"]
    ELSE [users |->
              ListRemove(usrs, usrs[CHOOSE i \in 1..Len(usrs) :
                  /\ usrs[i].username = Strip(username)
                  /\ \A j \in 1..(i - 1) : usrs[j].username # Strip(username)]),
          result |-> "UserDeleted"]

\* delete_user that compares the name with the own one before strip().
delete_user_ComparesUnstripped(usrs, cur, username, confirm) ==
    IF cur.role # admin
    THEN [users |-> usrs, result |-> "AdminOnly"]
    ELSE IF username = cur.username
    THEN [users |-> usrs, result |-> "OwnAccount"]
    ELSE IF ~ \E i \in 1..Len(usrs) : usrs[i].username = Strip(username)
    THEN [users |-> usrs, result |-> "UserNotFound"]
    ELSE IF Lower(Strip(confirm)) # yes
    THEN [users |-> usrs, result |-> "Cancelled"]
    ELSE [users |->
              ListRemove(usrs, usrs[CHOOSE i \in 1..Len(usrs) :
                  /\ usrs[i].username = Strip(username)
                  /\ \A j \in 1..(i - 1) : usrs[j].username # Strip(username)]),
          result |-> "UserDeleted"]

delete_user(usrs, cur, username, confirm) ==
    IF cur.role # admin
    THEN [users |-> usrs, result |-> "AdminOnly"]
    ELSE IF Strip(username) = cur.username
    THEN [users |-> usrs, result |-> "OwnAccount"]
    ELSE IF ~ \E i \in 1..Len(usrs) : usrs[i].username = Strip(username)
    THEN [users |-> usrs, result |-> "UserNotFound"]
    ELSE IF Lower(Strip(confirm)) # yes
    THEN [users |-> usrs, result |-> "Cancelled"]
    ELSE [users |->
              ListRemove(usrs, usrs[CHOOSE i \in 1..Len(usrs) :
                  /\ usrs[i].username = Strip(username)
                  /\ \A j \in 1..(i - 1) : usrs[j].username # Strip(username)]),
          result |-> "UserDeleted"]

\* ----------------------------------------------------------------- inputs
\* What the person at the console types; each flow reads its own.
TicketIdInputs ==
    {FormatId(n) : n \in 1..(MaxTickets + 1)}
        \cup {<<" ">> \o FormatId(1) \o <<" ">>}

TitleInputs == {<<"P","c">>, <<" ","P","c">>, <<" ">>}

DescriptionInputs == {<<"d">>, <<>>}

PriorityInputs == {high, <<"H","i","g","h"," ">>, <<"u","r","g","e","n","t">>, <<>>}

StatusInputs ==
    {new, in_progress, resolved, <<" ","R","e","s","o","l","v","e","d">>,
     <<"c","l","o","s","e","d">>}

MessageInputs == {<<"o","k">>, <<"o","k"," ">>}

ConfirmInputs == {yes, <<" ","Y">>, <<"n">>}

KeywordInputs == {<<>>, <<" ">>, user1, <<"p","C">>, <<"0","0","2">>, <<"z","z">>}

\* Choices of the sort menu: 1..6, one typed with blanks, and a wrong one.
SortChoices ==
    {<<"1">>, <<"2">>, <<"3">>, <<"4">>, <<"5">>, <<"6">>, <<"9">>,
     <<" ","4"," ">>, <<"\t","6">>}

\* The answers to "Sort results? (y/n)" and, after a yes, to the sort menu.
SortAskInputs ==
    {<<<<"n">>, <<>>>>} \cup {<<o, ch>> : o \in {<<" ","Y">>}, ch \in SortChoices}

LoginInputs ==
    { <<admin, admin123>>, <<user1, user123>>, <<<<" ">> \o user2, user123>>,
      <<user1, admin123>> }

RegisterInputs ==
    { <<user3, user123, user>>, <<user1, user123, user>>,
      <<user3, user123, <<"r","o","o","t">>>> }

DeleteUserInputs == {user3, admin, <<"n","o","b","o","d","y">>}

\* ------------------------------------------------------------------ state
\* tickets and users are the contents of tickets.json and users.json, pc the
\* menu loop the program is in, now the last reading of the clock, and issued
\* the numbers of all ticket ids handed out so far (history). inflight and
\* reported are used where several processes of the program share the files:
\* the locals of the operation each is in, and the successes returned so far.
\*
\* last is what the console shows of the operation just run: op is the flow,
\* tid the ticket id it passed on, arg its other argument, outcome the message
\* it printed, shown the tickets it displayed, in order. The menu loops clear
\* it when they print their menu again (op = "prompt").
Out(op, tid, arg, outcome, shown) ==
    [op |-> op, tid |-> tid, arg |-> arg, outcome |-> outcome, shown |-> shown]

AtPrompt == last.op = "prompt"

Prompted == Out("prompt", <<>>, <<>>, "", <<>>)

Init ==
    /\ tickets = <<>>
    /\ users = default_users
    /\ CURRENT_USER = None
    /\ pc = "main"
    /\ now = 0
    /\ last = Prompted
    /\ issued = {}
    /\ inflight = <<>>
    /\ reported = {}
    /\ torn = 0

InMenu == AtPrompt /\ pc \in {"admin_menu", "user_menu"}

\* [t for t in tickets if t["reporter"] == CURRENT_USER["username"]]
MyTickets(tks, cur) == SelectSeq(tks, LAMBDA t : t.reporter = cur.username)

\* datetime.datetime.now() in one process: later than the reading before.
ClockReading == now + 1

\* The two flows without their ownership check.
NotMine_Unchecked(tks, cur, ticket_id) == FALSE

\* The ownership check of add_comment_flow and update_ticket_status_flow.
NotMine(tks, cur, ticket_id) ==
    /\ cur.role = user
    /\ get_ticket(tks, ticket_id) # None
    /\ get_ticket(tks, ticket_id).reporter # cur.username

\* create_ticket_flow without "All fields are required!".
CreateTicketFlow_Unchecked(tks, cur, t, d, p, clock) ==
    LET title == Strip(t)
        description == Strip(d)
        priority == Lower(Strip(p))
        r == create_ticket(tks, title, description, priority, cur.username, clock)
    IN  [tickets |-> r.tickets, result |-> r.result,
         tid |-> IF r.result = "Created"
                 THEN r.tickets[Len(r.tickets)].id ELSE <<>>,
         arg |-> priority]

\* The flows as functions of the store, the session and what is typed: the
\* store they leave, the message they print, the id and the argument they
\* pass on.
CreateTicketFlow(tks, cur, t, d, p, clock) ==
    LET title == Strip(t)
        description == Strip(d)
        priority == Lower(Strip(p))
        r == create_ticket(tks, title, description, priority, cur.username, clock)
    IN  IF title = <<>> \/ description = <<>> \/ priority = <<>>
        THEN [tickets |-> tks, result |-> "FieldsRequired", tid |-> <<>>,
              arg |-> priority]
        ELSE [tickets |-> r.tickets, result |-> r.result,
              tid |-> IF r.result = "Created"
                      THEN r.tickets[Len(r.tickets)].id ELSE <<>>,
              arg |-> priority]

UpdateTicketStatusFlow(tks, cur, id, s) ==
    LET r == update_ticket_status(tks, Strip(id), Lower(Strip(s)))
    IN  IF NotMine(tks, cur, Strip(id))
        THEN [tickets |-> tks, result |-> "Forbidden", tid |-> Strip(id),
              arg |-> <<>>]
        ELSE [tickets |-> r.tickets, result |-> r.result, tid |-> Strip(id),
              arg |-> Lower(Strip(s))]

AddCommentFlow(tks, cur, id, m, clock) ==
    LET r == add_comment(tks, Strip(id), cur.username, Strip(m), clock)
    IN  IF NotMine(tks, cur, Strip(id))
        THEN [tickets |-> tks, result |-> "Forbidden", tid |-> Strip(id),
              arg |-> <<>>]
        ELSE [tickets |-> r.tickets, result |-> r.result, tid |-> Strip(id),
              arg |-> Strip(m)]

\* The confirmation as delete_ticket compares it; it is asked for only once
\* the ticket is found and the user may delete it.
ConfirmRead(r, c) ==
    IF r.result \in {"Cancelled", "Deleted"} THEN Lower(Strip(c)) ELSE <<>>

DeleteTicketFlow(tks, cur, id, c) ==
    LET r == delete_ticket(tks, cur, Strip(id), c)
    IN  [tickets |-> r.tickets, result |-> r.result, tid |-> Strip(id),
         arg |-> ConfirmRead(r, c)]

\* Without tickets of their own the user is not asked for an id.
DeleteMyTicketFlow(tks, cur, id, c) ==
    LET ticket == get_ticket(tks, Strip(id))
    IN  IF MyTickets(tks, cur) = <<>>
        THEN [tickets |-> tks, result |-> "NoTickets", tid |-> <<>>, arg |-> <<>>]
        ELSE IF ticket = None
        THEN [tickets |-> tks, result |-> "NotFound", tid |-> Strip(id),
              arg |-> <<>>]
        ELSE IF ticket.reporter # cur.username
        THEN [tickets |-> tks, result |-> "Forbidden", tid |-> Strip(id),
              arg |-> <<>>]
        ELSE DeleteTicketFlow(tks, cur, id, c)

\* The head of the three "while True" loops: the menu is printed again and the
\* program waits for the next choice.
menu_loop ==
    /\ ~AtPrompt
    /\ last' = Prompted
    /\ UNCHANGED <<tickets, users, CURRENT_USER, pc, now, issued, inflight, reported, torn>>

\* main: choice 1, authenticate_user and the menu of the role.
LoginWith(inputs) ==
    /\ AtPrompt /\ pc = "main"
    /\ \E in \in inputs :
         LET u == authenticate_user(users, in[1], in[2])
         IN  /\ CURRENT_USER' = u
             /\ pc' = IF u = None THEN "main"
                      ELSE IF u.role = admin THEN "admin_menu" ELSE "user_menu"
             /\ last' = Out("login", <<>>, Strip(in[1]),
                            IF u = None THEN "InvalidLogin" ELSE "Welcome", <<>>)
    /\ UNCHANGED <<tickets, users, now, issued, inflight, reported, torn>>

Login == LoginWith(LoginInputs)

\* Choice 10 of the admin menu, 8 of the user menu.
Logout ==
    /\ InMenu
    /\ pc' = "main"
    /\ last' = Out("logout", <<>>, <<>>, "LoggedOut", <<>>)
    /\ UNCHANGED <<tickets, users, CURRENT_USER, now, issued, inflight, reported, torn>>

create_ticket_flow ==
    /\ InMenu
    /\ \E t \in TitleInputs, d \in DescriptionInputs, p \in PriorityInputs :
         LET r == CreateTicketFlow(tickets, CURRENT_USER, t, d, p, ClockReading)
         IN  /\ r.result = "Created" => Len(tickets) < MaxTickets /\ now < MaxClock
             /\ tickets' = r.tickets
             /\ now' = IF r.result = "Created" THEN ClockReading ELSE now
             /\ issued' = IF r.result = "Created"
                          THEN issued \cup {IdNumber(r.tid)} ELSE issued
             /\ last' = Out("create_ticket_flow", r.tid, r.arg, r.result, <<>>)
    /\ UNCHANGED <<users, CURRENT_USER, pc, inflight, reported, torn>>

update_ticket_status_flow ==
    /\ InMenu
    /\ \E id \in TicketIdInputs, s \in StatusInputs :
         LET r == UpdateTicketStatusFlow(tickets, CURRENT_USER, id, s)
         IN  /\ tickets' = r.tickets
             /\ last' = Out("update_ticket_status_flow", r.tid, r.arg, r.result, <<>>)
    /\ UNCHANGED <<users, CURRENT_USER, pc, now, issued, inflight, reported, torn>>

add_comment_flow ==
    /\ InMenu
    /\ \E id \in TicketIdInputs, m \in MessageInputs :
         LET r == AddCommentFlow(tickets, CURRENT_USER, id, m, ClockReading)
         IN  /\ r.result = "CommentAdded" =>
                    /\ now < MaxClock
                    /\ Len(get_ticket(tickets, r.tid).comments) < MaxComments
             /\ tickets' = r.tickets
             /\ now' = IF r.result = "CommentAdded" THEN ClockReading ELSE now
             /\ last' = Out("add_comment_flow", r.tid, r.arg, r.result, <<>>)
    /\ UNCHANGED <<users, CURRENT_USER, pc, issued, inflight, reported, torn>>

\* Admin menu 7: the id goes straight to delete_ticket.
delete_ticket_flow ==
    /\ InMenu /\ pc = "admin_menu"
    /\ \E id \in TicketIdInputs, c \in ConfirmInputs :
         LET r == DeleteTicketFlow(tickets, CURRENT_USER, id, c)
         IN  /\ tickets' = r.tickets
             /\ last' = Out("delete_ticket_flow", r.tid, r.arg, r.result, <<>>)
    /\ UNCHANGED <<users, CURRENT_USER, pc, now, issued, inflight, reported, torn>>

\* User menu 7: the user's tickets are listed first.
delete_my_ticket_flow ==
    /\ InMenu /\ pc = "user_menu"
    /\ \E id \in TicketIdInputs, c \in ConfirmInputs :
         LET r == DeleteMyTicketFlow(tickets, CURRENT_USER, id, c)
         IN  /\ tickets' = r.tickets
             /\ last' = Out("delete_my_ticket_flow", r.tid, r.arg, r.result,
                            MyTickets(tickets, CURRENT_USER))
    /\ UNCHANGED <<users, CURRENT_USER, pc, now, issued, inflight, reported, torn>>

\* User management that takes the tickets of a deleted user with it.
ManageUsersWith_TakesTickets(registrations, deletions) ==
    /\ InMenu /\ pc = "admin_menu"
    /\ \/ \E in \in registrations :
            LET r == register_user(users, CURRENT_USER, in[1], in[2], in[3])
            IN  /\ users' = r.users
                /\ tickets' = tickets
                /\ last' = Out("register_user", <<>>, Strip(in[1]), r.result, <<>>)
       \/ \E u \in deletions, c \in ConfirmInputs :
            LET r == delete_user(users, CURRENT_USER, u, c)
            IN  /\ users' = r.users
                /\ tickets' = IF r.result = "UserDeleted"
                              THEN SelectSeq(tickets, LAMBDA t : t.reporter # Strip(u))
                              ELSE tickets
                /\ last' = Out("delete_user", <<>>, Strip(u), r.result, <<>>)
       \/ /\ last' = Out("manage_users_flow", <<>>, <<>>, "Listed", <<>>)
          /\ UNCHANGED <<users, tickets>>
    /\ UNCHANGED <<CURRENT_USER, pc, now, issued, inflight, reported, torn>>

\* Admin menu 9, choices 1 and 3 (2 lists the users, 4 goes back).
ManageUsersWith(registrations, deletions) ==
    /\ InMenu /\ pc = "admin_menu"
    /\ \/ \E in \in registrations :
            LET r == register_user(users, CURRENT_USER, in[1], in[2], in[3])
            IN  /\ users' = r.users
                /\ last' = Out("register_user", <<>>, Strip(in[1]), r.result, <<>>)
       \/ \E u \in deletions, c \in ConfirmInputs :
            LET r == delete_user(users, CURRENT_USER, u, c)
            IN  /\ users' = r.users
                /\ last' = Out("delete_user", <<>>, Strip(u), r.result, <<>>)
       \/ /\ last' = Out("manage_users_flow", <<>>, <<>>, "Listed", <<>>)
          /\ UNCHANGED users
    /\ UNCHANGED <<tickets, CURRENT_USER, pc, now, issued, inflight, reported, torn>>

manage_users_flow == ManageUsersWith(RegisterInputs, DeleteUserInputs)

Next ==
    \/ menu_loop
    \/ Login
    \/ Logout
    \/ create_ticket_flow
    \/ update_ticket_status_flow
    \/ add_comment_flow
    \/ delete_ticket_flow
    \/ delete_my_ticket_flow
    \/ manage_users_flow

Spec == Init /\ [][Next]_vars

\* ------------------------------------------------------- user management
\* The program with every account logging in and the user management of the
\* admin menu: new accounts of both roles, names already taken, with and
\* without blanks, a role that does not exist, and the deletion of every
\* account.
UsersLoginInputs ==
    { <<admin, admin123>>, <<tech, tech123>>, <<user1, user123>>,
      <<user3, user123>>, <<admin, user123>> }

UsersRegisterInputs ==
    { <<user3, user123, user>>,
      <<user3, user123, <<" ","A","d","m","i","n">>>>,
      <<<<" ">> \o user1, user123, user>>,
      <<admin, user123, <<"r","o","o","t">>>>,
      <<user3, user123, <<"r","o","o","t">>>> }

UsersDeleteInputs == {user3, admin, <<" ">> \o tech, user1, <<"n","o","b","o","d","y">>}

main_login == LoginWith(UsersLoginInputs)

user_management == ManageUsersWith(UsersRegisterInputs, UsersDeleteInputs)

NextUsers ==
    \/ menu_loop
    \/ main_login
    \/ Logout
    \/ user_management

SpecUsers == Init /\ [][NextUsers]_vars

\* ---------------------------------------------------------------- display
\* What sort_tickets_flow displays for a list and a choice of its menu.
SortFlow(tks, choice) ==
    LET c == Strip(choice)
    IN  IF tks = <<>> THEN [shown |-> <<>>, result |-> "NoTicketsToSort"]
        ELSE CASE c = <<"1">> ->
                      [shown |-> sort_tickets(tks, "date", FALSE), result |-> "Sorted"]
               [] c = <<"2">> ->
                      [shown |-> sort_tickets(tks, "date", TRUE), result |-> "Sorted"]
               [] c = <<"3">> ->
                      [shown |-> sort_tickets(tks, "priority", FALSE), result |-> "Sorted"]
               [] c = <<"4">> ->
                      [shown |-> sort_tickets(tks, "priority", TRUE), result |-> "Sorted"]
               [] c = <<"5">> ->
                      [shown |-> sort_tickets(tks, "status", TRUE), result |-> "Sorted"]
               [] c = <<"6">> ->
                      [shown |-> sort_tickets(tks, "title", TRUE), result |-> "Sorted"]
               [] OTHER -> [shown |-> <<>>, result |-> "InvalidChoice"]

\* What search_tickets_flow displays: the matches, and the sorted matches
\* when the user asks for them.
SearchFlow(tks, keyword, sort_option, choice) ==
    LET results == search_tickets(tks, Strip(keyword))
    IN  IF results = <<>> THEN [shown |-> <<>>, result |-> "NoMatch"]
        ELSE IF Lower(Strip(sort_option)) = yes
        THEN [shown |-> results \o SortFlow(results, choice).shown,
              result |-> SortFlow(results, choice).result]
        ELSE [shown |-> results, result |-> "Found"]

\* Menu 5 of both menus.
search_tickets_flow ==
    /\ InMenu
    /\ \E k \in KeywordInputs, a \in SortAskInputs :
         LET r == SearchFlow(tickets, k, a[1], a[2])
         IN  last' = Out("search_tickets_flow", <<>>, Strip(k), r.result, r.shown)
    /\ UNCHANGED <<tickets, users, CURRENT_USER, pc, now, issued, inflight, reported, torn>>

\* Menu 6: the admin sorts the whole store, the user my_tickets. Without
\* tickets to sort no choice is asked for.
sort_tickets_flow ==
    /\ InMenu
    /\ \E ch \in SortChoices :
         LET r == SortFlow(IF pc = "admin_menu" THEN tickets
                           ELSE MyTickets(tickets, CURRENT_USER), ch)
         IN  last' = Out("sort_tickets_flow", <<>>,
                         IF r.result = "NoTicketsToSort" THEN <<>> ELSE Strip(ch),
                         r.result, r.shown)
    /\ UNCHANGED <<tickets, users, CURRENT_USER, pc, now, issued, inflight, reported, torn>>

\* User menu 2: the list of my_tickets, then one of four sub-flows
\* (1 details, 2 search, 3 sort, 4 delete; anything else ends the flow).
view_my_tickets_flow ==
    /\ InMenu /\ pc = "user_menu"
    /\ LET mine == MyTickets(tickets, CURRENT_USER)
           Say(tid, choice, outcome, shown) ==
               last' = Out("view_my_tickets_flow", tid, choice, outcome, shown)
       IN  IF mine = <<>>
           THEN Say(<<>>, <<>>, "NoTickets", <<>>) /\ UNCHANGED tickets
           ELSE \/ \E id \in TicketIdInputs :
                     LET ticket == get_ticket(tickets, Strip(id))
                     IN  /\ IF ticket # None /\ ticket.reporter = CURRENT_USER.username
                            THEN Say(Strip(id), <<"1">>, "Details", mine \o <<ticket>>)
                            ELSE Say(Strip(id), <<"1">>, "AccessDenied", mine)
                         /\ UNCHANGED tickets
                \/ \E k \in KeywordInputs, a \in SortAskInputs :
                     LET sea == SearchFlow(tickets, k, a[1], a[2])
                     IN  /\ Say(<<>>, <<"2">>, sea.result, mine \o sea.shown)
                         /\ UNCHANGED tickets
                \/ \E ch \in SortChoices :
                     LET srt == SortFlow(mine, ch)
                     IN  /\ Say(<<>>, <<"3">>, srt.result, mine \o srt.shown)
                         /\ UNCHANGED tickets
                \/ \E id \in TicketIdInputs, c \in ConfirmInputs :
                     LET del == DeleteMyTicketFlow(tickets, CURRENT_USER, id, c)
                     IN  /\ Say(del.tid, <<"4">>, del.result, mine \o mine)
                         /\ tickets' = del.tickets
                \/ /\ Say(<<>>, <<"9">>, "Listed", mine)
                   /\ UNCHANGED tickets
    /\ UNCHANGED <<users, CURRENT_USER, pc, now, issued, inflight, reported, torn>>

\* Admin menu 2: the list of all tickets, then one of four sub-flows.
view_all_tickets_flow ==
    /\ InMenu /\ pc = "admin_menu"
    /\ LET Say(tid, choice, outcome, shown) ==
               last' = Out("view_all_tickets_flow", tid, choice, outcome, shown)
       IN  IF tickets = <<>>
           THEN Say(<<>>, <<>>, "NoTickets", <<>>) /\ UNCHANGED tickets
           ELSE \/ \E id \in TicketIdInputs :
                     LET ticket == get_ticket(tickets, Strip(id))
                     IN  /\ IF ticket # None
                            THEN Say(Strip(id), <<"1">>, "Details", tickets \o <<ticket>>)
                            ELSE Say(Strip(id), <<"1">>, "NotFound", tickets)
                         /\ UNCHANGED tickets
                \/ \E k \in KeywordInputs, a \in SortAskInputs :
                     LET sea == SearchFlow(tickets, k, a[1], a[2])
                     IN  /\ Say(<<>>, <<"2">>, sea.result, tickets \o sea.shown)
                         /\ UNCHANGED tickets
                \/ \E ch \in SortChoices :
                     LET srt == SortFlow(tickets, ch)
                     IN  /\ Say(<<>>, <<"3">>, srt.result, tickets \o srt.shown)
                         /\ UNCHANGED tickets
                \/ \E id \in TicketIdInputs, c \in ConfirmInputs :
                     LET del == DeleteTicketFlow(tickets, CURRENT_USER, id, c)
                     IN  /\ Say(del.tid, <<"4">>, del.result, tickets)
                         /\ tickets' = del.tickets
                \/ /\ Say(<<>>, <<"9">>, "Listed", tickets)
                   /\ UNCHANGED tickets
    /\ UNCHANGED <<users, CURRENT_USER, pc, now, issued, inflight, reported, torn>>

\* The display flows, started in a session over a store that earlier creations
\* left: the i-th ticket carries the i-th id and the i-th reading of the clock.
ViewTitles == {<<"P","c">>, <<"a","b">>}

ViewTickets(n) ==
    [1..n -> [title : ViewTitles, priority : {high, low},
              reporter : {admin, user1, user2}]]

ViewStores ==
    UNION { { [i \in 1..n |->
                 [ id           |-> FormatId(i),
                   title        |-> f[i].title,
                   description  |-> <<"d">>,
                   priority     |-> f[i].priority,
                   reporter     |-> f[i].reporter,
                   status       |-> new,
                   created_date |-> i,
                   comments     |-> <<>> ]] : f \in ViewTickets(n) }
            : n \in 0..MaxTickets }

InitView ==
    /\ tickets \in ViewStores
    /\ users = default_users
    /\ CURRENT_USER \in {default_users[i] : i \in {1, 3, 4}}
    /\ pc = IF CURRENT_USER.role = admin THEN "admin_menu" ELSE "user_menu"
    /\ now = Len(tickets)
    /\ last = Prompted
    /\ issued = 1..Len(tickets)
    /\ inflight = <<>>
    /\ reported = {}
    /\ torn = 0

NextView ==
    \/ menu_loop
    \/ search_tickets_flow
    \/ sort_tickets_flow
    \/ view_my_tickets_flow
    \/ view_all_tickets_flow

SpecView == InitView /\ [][NextView]_vars

\* ------------------------------------------------- accounts that come back
\* The program after user1 and admin each created a ticket and logged out:
\* accounts are deleted and registered again under the same username with
\* another password, and whoever logs in works on the tickets of the store.
pass2 == <<"p","w","2">>

ReturnLoginInputs ==
    { <<admin, admin123>>, <<user1, user123>>, <<user1, pass2>>,
      <<user2, user123>> }

ReturnRegisterInputs == { <<user1, pass2, user>>, <<user2, pass2, user>> }

ReturnDeleteInputs == {user1, <<" ">> \o user2}

InitReturn ==
    /\ tickets =
         create_ticket(
             create_ticket(<<>>, <<"P","c">>, <<"d">>, high, user1, 1).tickets,
             <<"a","b">>, <<"d">>, low, admin, 2).tickets
    /\ users = default_users
    /\ CURRENT_USER = None
    /\ pc = "main"
    /\ now = 2
    /\ last = Prompted
    /\ issued = {1, 2}
    /\ inflight = <<>>
    /\ reported = {}
    /\ torn = 0

return_login == LoginWith(ReturnLoginInputs)

return_manage_users == ManageUsersWith(ReturnRegisterInputs, ReturnDeleteInputs)

NextReturn ==
    \/ menu_loop
    \/ return_login
    \/ Logout
    \/ return_manage_users
    \/ update_ticket_status_flow
    \/ add_comment_flow
    \/ delete_my_ticket_flow
    \/ view_my_tickets_flow

SpecReturn == InitReturn /\ [][NextReturn]_vars

\* ------------------------------------------------- search and sort alone
\* sort_tickets and search_tickets called on a list of tickets as creations,
\* updates and deletions leave them: ids and dates ascending, any priority,
\* status new or resolved, two titles, the admin's tickets the high ones.
ListTitles == {<<"P","c">>, <<"a","b">>}

ListKinds == [title : ListTitles, priority : valid_priorities, status : {new, resolved}]

\* The i-th ticket of a list, of the kind given.
ListTicket(i, kind) ==
    [ id           |-> FormatId(i),
      title        |-> kind.title,
      description  |-> <<"d">>,
      priority     |-> kind.priority,
      reporter     |-> IF kind.priority = high THEN admin ELSE user1,
      status       |-> kind.status,
      created_date |-> i,
      comments     |-> <<>> ]

\* Keywords as search_tickets gets them, stripped or not.
RawKeywords ==
    { <<>>, <<" ", " ">>, <<"p","C">>, <<" ","p","c">>, <<"A","D","M">>,
      <<"t","-","0","0","2">>, <<"d">>, <<"z">> }

SortFieldInputs == SortFields \cup {"id"}

InitLists ==
    /\ \E n \in 0..MaxListLen :
         \E f \in [1..n -> ListKinds] :
            tickets = [i \in 1..n |-> ListTicket(i, f[i])]
    /\ users = default_users
    /\ CURRENT_USER = default_users[1]
    /\ pc = "admin_menu"
    /\ now = Len(tickets)
    /\ last = Prompted
    /\ issued = 1..Len(tickets)
    /\ inflight = <<>>
    /\ reported = {}
    /\ torn = 0

sort_tickets_call ==
    /\ InMenu
    /\ \E sort_by \in SortFieldInputs, ascending \in BOOLEAN :
         last' = Out("sort_tickets", <<>>,
                     [sort_by |-> sort_by, ascending |-> ascending], "Returned",
                     sort_tickets(tickets, sort_by, ascending))
    /\ UNCHANGED <<tickets, users, CURRENT_USER, pc, now, issued, inflight, reported, torn>>

search_tickets_call ==
    /\ InMenu
    /\ \E keyword \in RawKeywords :
         last' = Out("search_tickets", <<>>, keyword, "Returned",
                     search_tickets(tickets, keyword))
    /\ UNCHANGED <<tickets, users, CURRENT_USER, pc, now, issued, inflight, reported, torn>>

NextLists ==
    \/ menu_loop
    \/ sort_tickets_call
    \/ search_tickets_call

SpecLists == InitLists /\ [][NextLists]_vars

\* ------------------------------------------------------ a shared store
\* Two processes of the program over the same tickets.json, one logged in as
\* admin, one as user1: CURRENT_USER, pc and now are per process. Between
\* any two accesses of an operation to the file or to the clock the other
\* process may run. create_ticket reads the file twice: once in Ticket() for
\* the id, once for the list it appends to. save_tickets empties the file
\* when it opens it and writes the list afterwards. tickets is what
\* load_tickets returns at the moment: [] while the file is missing, empty or
\* not a JSON document. torn is the size of the file while it holds a
\* document followed by the rest of a longer one, 0 otherwise.
Sessions == {1, 2}

SessionUser == <<default_users[1], default_users[3]>>

Idle == [step |-> "idle"]

\* An operation may start: fewer than MaxSharedOps have succeeded or are
\* under way.
MayStart ==
    Cardinality(reported) + Cardinality({s \in Sessions : inflight[s] # Idle})
        < MaxSharedOps

SharedOps == {"update_ticket_status", "add_comment", "delete_ticket"}

SharedIds == {FormatId(1), FormatId(2)}

\* The characters json.dump writes for a text: a tab becomes \t.
JsonLen(text) == Len(text) + Cardinality({i \in 1..Len(text) : text[i] = "\t"})

\* A reading of the clock that falls on a whole second: isoformat() leaves
\* the microseconds out, 19 characters instead of 26. Every second reading
\* of the scale is taken to be one.
WholeSecond(t) == t % 2 = 0

StampLen(t) == IF WholeSecond(t) THEN 19 ELSE 26

\* Characters of one ticket in json.dump(tickets, f, indent=2) besides
\* its texts and its created_date, of the brackets of a list of comments
\* that is not empty, and of one comment besides its texts and timestamp.
TicketFrame == 162
CommentsFrame == 4
CommentFrame == 84

RECURSIVE CommentsBytes(_)
CommentsBytes(comments) ==
    IF comments = <<>> THEN 0
    ELSE CommentFrame + JsonLen(Head(comments).user)
             + JsonLen(Head(comments).message) + StampLen(Head(comments).timestamp)
             + CommentsBytes(Tail(comments))

TicketBytes(t) ==
    TicketFrame + JsonLen(t.id) + JsonLen(t.title) + JsonLen(t.description)
        + JsonLen(t.priority) + JsonLen(t.reporter) + JsonLen(t.status)
        + StampLen(t.created_date)
        + (IF t.comments = <<>> THEN 0
           ELSE CommentsFrame + CommentsBytes(t.comments))

\* The size of the file json.dump(tks, f, indent=2) writes.
RECURSIVE FileBytes(_)
FileBytes(tks) ==
    IF tks = <<>> THEN 2 ELSE TicketBytes(Head(tks)) + 2 + FileBytes(Tail(tks))

\* The document json.dump(tks, f, indent=2) is at least as long as what is
\* in tickets.json now: written from the start of the file it leaves
\* nothing of it. With tickets = <<>> and torn = 0 the file is missing,
\* empty or "[]".
Covers(tks) ==
    IF torn > 0 THEN torn <= FileBytes(tks)
    ELSE tickets = <<>> \/ FileBytes(tickets) <= FileBytes(tks)

\* datetime.datetime.now() in process s: later than the readings of s
\* before, not earlier than any reading of the other process, possibly
\* equal to one, on a whole second or not.
SharedClock == IF now[1] > now[2] THEN now[1] ELSE now[2]

SharedReadings(s) ==
    {r \in SharedClock..MaxClock : r > now[s]}

\* The reporter and the created_date of a ticket, the user and the
\* timestamp of a comment: what tells it from every other one.
TicketKey(t) == <<t.reporter, t.created_date>>

CommentKey(c) == <<c.user, c.timestamp>>

InitShared ==
    /\ tickets = <<>>
    /\ users = default_users
    /\ CURRENT_USER = SessionUser
    /\ pc = [s \in Sessions |->
                IF SessionUser[s].role = admin THEN "admin_menu" ELSE "user_menu"]
    /\ now = [s \in Sessions |-> 0]
    /\ last = Prompted
    /\ issued = {}
    /\ inflight = [s \in Sessions |-> Idle]
    /\ reported = {}
    /\ torn = 0

\* create_ticket up to self.id = self._generate_ticket_id(): the priority is
\* valid, the id comes from the file as it is now.
construct_ticket ==
    /\ \E s \in Sessions :
         /\ inflight[s] = Idle /\ MayStart
         /\ Len(tickets) < MaxTickets /\ now[s] < MaxClock
         /\ inflight' = [inflight EXCEPT ![s] =
                [step |-> "id", op |-> "create_ticket",
                 ticket_id |-> _generate_ticket_id(tickets),
                 new_ticket |-> None, tickets |-> tickets, clock |-> 0]]
    /\ UNCHANGED <<tickets, users, CURRENT_USER, pc, now, last, issued, reported, torn>>

\* datetime.datetime.now().isoformat(): the created_date at the end of
\* Ticket(), the timestamp of add_comment once the ticket is found.
datetime_now ==
    /\ \E s \in Sessions : \E r \in SharedReadings(s) :
         /\ \/ /\ inflight[s].step = "id"
               /\ inflight' = [inflight EXCEPT ![s] =
                      [@ EXCEPT !.step = "constructed", !.clock = r,
                                !.tickets = <<>>,
                                !.new_ticket =
                                    Ticket(inflight[s].tickets, <<"P","c">>, <<"d">>,
                                           high, CURRENT_USER[s].username, r)]]
            \/ /\ inflight[s].step = "loaded"
               /\ inflight[s].op = "add_comment"
               /\ FindTicket(inflight[s].tickets, inflight[s].ticket_id) > 0
               /\ \A i \in 1..Len(inflight[s].tickets) :
                     Len(inflight[s].tickets[i].comments) < MaxComments
               /\ inflight' = [inflight EXCEPT ![s] =
                      [@ EXCEPT !.step = "timed", !.clock = r]]
         /\ now' = [now EXCEPT ![s] = r]
    /\ UNCHANGED <<tickets, users, CURRENT_USER, pc, last, issued, reported, torn>>

\* tickets = load_tickets() of the four operations.
load_tickets ==
    /\ \E s \in Sessions :
         \/ /\ inflight[s].step = "constructed"
            /\ inflight' = [inflight EXCEPT ![s] =
                   [@ EXCEPT !.step = "loaded", !.tickets = tickets]]
         \/ /\ inflight[s] = Idle /\ MayStart
            /\ \E op \in SharedOps, id \in SharedIds :
                 /\ op = "add_comment" => now[s] < MaxClock
                 /\ inflight' = [inflight EXCEPT ![s] =
                        [step |-> "loaded", op |-> op, ticket_id |-> id,
                         new_ticket |-> None, tickets |-> tickets, clock |-> 0]]
    /\ UNCHANGED <<tickets, users, CURRENT_USER, pc, now, last, issued, reported, torn>>

\* What the operation of process s makes of the list it loaded: the list it
\* would save, its message, and the ticket it worked on.
SharedResult(s) ==
    LET l == inflight[s]
        k == FindTicket(l.tickets, l.ticket_id)
        r == CASE l.op = "create_ticket" ->
                      [tickets |-> Append(l.tickets, l.new_ticket),
                       result |-> "Created"]
               [] l.op = "update_ticket_status" ->
                      update_ticket_status(l.tickets, l.ticket_id, resolved)
               [] l.op = "add_comment" ->
                      add_comment(l.tickets, l.ticket_id, CURRENT_USER[s].username,
                                  <<"o","k">>, l.clock)
               [] l.op = "delete_ticket" ->
                      delete_ticket(l.tickets, CURRENT_USER[s], l.ticket_id, yes)
    IN  [tickets |-> r.tickets, result |-> r.result,
         target  |-> IF l.op = "create_ticket" THEN TicketKey(l.new_ticket)
                     ELSE IF k = 0 THEN <<>> ELSE TicketKey(l.tickets[k]),
         date    |-> IF l.op = "add_comment"
                     THEN <<CURRENT_USER[s].username, l.clock>>
                     ELSE <<>>]

SharedSuccess == {"Created", "Updated", "CommentAdded", "Deleted"}

\* The operation of process s has its list ready for save_tickets.
ReadyToSave(s) ==
    /\ \/ inflight[s].step = "loaded" /\ inflight[s].op # "add_comment"
       \/ inflight[s].step = "timed"
    /\ SharedResult(s).result \in SharedSuccess

\* open(TICKETS_FILE, 'w') of save_tickets: the file is empty from here on.
open_tickets_file ==
    /\ \E s \in Sessions :
         /\ ReadyToSave(s)
         /\ inflight' = [inflight EXCEPT ![s] = [@ EXCEPT !.step = "opened"]]
    /\ tickets' = <<>>
    /\ torn' = 0
    /\ UNCHANGED <<users, CURRENT_USER, pc, now, last, issued, reported>>

\* json.dump and the end of the with block of save_tickets, then the return
\* of the success message: the list is written from the start of the file,
\* over what the other process wrote there since the file was opened.
json_dump ==
    /\ \E s \in Sessions :
         /\ inflight[s].step = "opened"
         /\ IF Covers(SharedResult(s).tickets)
            THEN tickets' = SharedResult(s).tickets /\ torn' = 0
            ELSE /\ tickets' = <<>>
                 /\ torn' = IF torn > 0 THEN torn ELSE FileBytes(tickets)
         /\ reported' = reported \cup
               {[op |-> inflight[s].op, id |-> inflight[s].ticket_id,
                 target |-> SharedResult(s).target,
                 date |-> SharedResult(s).date]}
         /\ inflight' = [inflight EXCEPT ![s] = Idle]
    /\ UNCHANGED <<users, CURRENT_USER, pc, now, last, issued>>

\* The return of an error message: nothing is saved.
return_error ==
    /\ \E s \in Sessions :
         /\ inflight[s].step = "loaded"
         /\ SharedResult(s).result \notin SharedSuccess
         /\ inflight' = [inflight EXCEPT ![s] = Idle]
    /\ UNCHANGED <<tickets, users, CURRENT_USER, pc, now, last, issued, reported, torn>>

NextShared ==
    \/ construct_ticket
    \/ datetime_now
    \/ load_tickets
    \/ open_tickets_file
    \/ json_dump
    \/ return_error

SpecShared == InitShared /\ [][NextShared]_vars

\* ----------------------------------------------------------------- claims
\* The flows of the user menu that change a ticket.
UserTicketOps ==
    {"update_ticket_status_flow", "add_comment_flow", "delete_my_ticket_flow"}

\* The ticket an id stands for is the first one that carries it; this says it
\* exists and was reported by somebody else than the logged-in user.
Foreign(tid) ==
    /\ FindTicket(tickets, tid) > 0
    /\ tickets[FindTicket(tickets, tid)].reporter # CURRENT_USER.username

\* seq without its k-th element.
RemoveAt(seq, k) == SubSeq(seq, 1, k - 1) \o SubSeq(seq, k + 1, Len(seq))

\* C1: no two tickets in the store share an id, and every newly created
\* ticket's number is greater than the number of every ticket created before
\* it, deleted or not (so no id is issued twice).
C1_IdsUniqueAndIncreasing ==
    [][ /\ \A i, j \in 1..Len(tickets') :
              i # j => tickets'[i].id # tickets'[j].id
        /\ (last'.op = "create_ticket_flow" /\ last'.outcome = "Created")
              => \A n \in issued : IdNumber(last'.tid) > n ]_vars

\* C2: in a user session, updating, commenting on or deleting a ticket that
\* somebody else reported answers Forbidden and leaves the store as it was,
\* whatever status, message or confirmation is typed; delete_ticket itself
\* refuses too; and no such flow ever touches a ticket of another reporter.
C2_NotOwnerForbidden ==
    [][ (pc = "user_menu" /\ CURRENT_USER.role = user /\ AtPrompt) =>
          /\ \A id \in TicketIdInputs, c \in ConfirmInputs :
                Foreign(Strip(id)) =>
                    delete_ticket(tickets, CURRENT_USER, Strip(id), c)
                        = [tickets |-> tickets, result |-> "Forbidden"]
          /\ (last'.op \in UserTicketOps /\ Foreign(last'.tid))
                => last'.outcome = "Forbidden" /\ tickets' = tickets
          /\ last'.op \in UserTicketOps =>
                SelectSeq(tickets', LAMBDA t : t.reporter # CURRENT_USER.username)
                    = SelectSeq(tickets, LAMBDA t : t.reporter # CURRENT_USER.username)
      ]_vars

\* A user was refused a comment on a ticket of somebody else.
C2_Witness ==
    /\ pc = "user_menu"
    /\ last.op = "add_comment_flow"
    /\ last.outcome = "Forbidden"
    /\ Foreign(last.tid)

\* C3: in a user session every ticket a flow displays was reported by the
\* logged-in user.
C3_UserSeesOnlyOwn ==
    pc = "user_menu" =>
        \A i \in 1..Len(last.shown) :
            last.shown[i].reporter = CURRENT_USER.username

\* C4: whoever may act on a ticket (its reporter, or an admin) reaches it by
\* its id: update, comment and confirmed delete succeed and change that very
\* ticket.
C4_OwnerAndAdminReachEveryTicket ==
    InMenu =>
        \A i \in 1..Len(tickets) :
            (CURRENT_USER.role = admin \/ tickets[i].reporter = CURRENT_USER.username)
            => LET id == tickets[i].id
                   upd == UpdateTicketStatusFlow(tickets, CURRENT_USER, id, resolved)
                   com == AddCommentFlow(tickets, CURRENT_USER, id, <<"o","k">>,
                                         ClockReading)
                   del == IF CURRENT_USER.role = admin
                          THEN DeleteTicketFlow(tickets, CURRENT_USER, id, yes)
                          ELSE DeleteMyTicketFlow(tickets, CURRENT_USER, id, yes)
               IN  /\ upd.result = "Updated"
                   /\ upd.tickets = [tickets EXCEPT ![i].status = resolved]
                   /\ com.result = "CommentAdded"
                   /\ Len(com.tickets[i].comments) = Len(tickets[i].comments) + 1
                   /\ \A j \in 1..Len(tickets) : j # i => com.tickets[j] = tickets[j]
                   /\ del.result = "Deleted"
                   /\ del.tickets = RemoveAt(tickets, i)

\* Priorities as a caller may hand them to create_ticket.
DirectPriorities == PriorityInputs \cup {Lower(Strip(p)) : p \in PriorityInputs}

\* C5: create_ticket with a priority outside low, medium, high answers with a
\* validation error and leaves the store as it was (nothing appended, no id
\* used up), in the flow and when called with any title and reporter.
C5_InvalidPriorityRejected ==
    [][ /\ (last'.op = "create_ticket_flow" /\ last'.arg \notin valid_priorities)
              => /\ last'.outcome \in {"InvalidPriority", "FieldsRequired"}
                 /\ tickets' = tickets
                 /\ issued' = issued
        /\ \A p \in DirectPriorities, t \in TitleInputs, r \in {admin, user1} :
              p \notin valid_priorities =>
                  create_ticket(tickets, t, <<"d">>, p, r, ClockReading)
                      = [tickets |-> tickets, result |-> "InvalidPriority"]
      ]_vars

\* A priority was refused by create_ticket while the store held a ticket.
C5_Witness ==
    /\ last.op = "create_ticket_flow"
    /\ last.outcome = "InvalidPriority"
    /\ last.arg \notin valid_priorities
    /\ tickets # <<>>

\* C6: a comment added to a ticket whose status is new leaves it in_progress;
\* added to a ticket in_progress or resolved it leaves the status as it was.
C6_CommentAdvancesNew ==
    [][ (last'.op = "add_comment_flow" /\ last'.outcome = "CommentAdded") =>
          /\ Len(tickets') = Len(tickets)
          /\ \E i \in 1..Len(tickets) :
                Len(tickets'[i].comments) = Len(tickets[i].comments) + 1
          /\ \A i \in 1..Len(tickets) :
                Len(tickets'[i].comments) = Len(tickets[i].comments) + 1 =>
                    /\ tickets[i].id = last'.tid
                    /\ tickets'[i].status =
                           IF tickets[i].status = new THEN in_progress
                           ELSE tickets[i].status
      ]_vars

\* A comment was just added to a resolved ticket, which is still resolved.
C6_Witness ==
    /\ last.op = "add_comment_flow"
    /\ last.outcome = "CommentAdded"
    /\ \E i \in 1..Len(tickets) :
          /\ tickets[i].id = last.tid
          /\ tickets[i].status = resolved
          /\ tickets[i].comments # <<>>
          /\ tickets[i].comments[Len(tickets[i].comments)].timestamp = now

DeleteOps == {"delete_ticket_flow", "delete_my_ticket_flow"}

\* C7: a ticket leaves the store only through a delete by an admin or by its
\* reporter, and only after the confirmation y; then exactly one ticket, one
\* with the id given, is gone and the others keep content and order. A delete
\* that answers anything else (declined, refused, not found) changes nothing.
C7_DeleteNeedsRightAndConfirmation ==
    [][ /\ (last'.op \in DeleteOps /\ last'.outcome = "Deleted") =>
              /\ last'.arg = yes
              /\ \E k \in 1..Len(tickets) :
                    /\ tickets[k].id = last'.tid
                    /\ \/ CURRENT_USER.role = admin
                       \/ tickets[k].reporter = CURRENT_USER.username
                    /\ tickets' = RemoveAt(tickets, k)
        /\ (last'.op \in DeleteOps /\ last'.outcome # "Deleted") => tickets' = tickets
        /\ Len(tickets') < Len(tickets) =>
              last'.op \in DeleteOps /\ last'.outcome = "Deleted"
      ]_vars

\* A user deleted one of two tickets; the other is still there.
C7_Witness ==
    /\ last.op = "delete_my_ticket_flow"
    /\ last.outcome = "Deleted"
    /\ last.arg = yes
    /\ tickets # <<>>

\* No ticket of the store carries this id.
Absent(tid) == \A i \in 1..Len(tickets) : tickets[i].id # tid

\* C8 as stated: update_ticket_status with an id not in the store answers
\* not-found, with a status outside new, in_progress, resolved it answers
\* invalid-status, add_comment with an id not in the store answers not-found;
\* the store stays as it was.
C8_AbsentIdIsNotFound ==
    [][ /\ (last'.op = "update_ticket_status_flow" /\ Absent(last'.tid)) =>
              last'.outcome = "NotFound" /\ tickets' = tickets
        /\ (/\ last'.op = "update_ticket_status_flow"
            /\ last'.outcome # "Forbidden"
            /\ last'.arg \notin valid_statuses) =>
              last'.outcome = "InvalidStatus" /\ tickets' = tickets
        /\ (last'.op = "add_comment_flow" /\ Absent(last'.tid)) =>
              last'.outcome = "NotFound" /\ tickets' = tickets
      ]_vars

\* C8 amended: the status is checked first. A status outside new,
\* in_progress, resolved answers invalid-status whether or not the id is in the
\* store; a valid status with an id not in the store answers not-found;
\* add_comment with an id not in the store answers not-found; the store stays
\* as it was.
C8_StatusCheckedBeforeLookup ==
    [][ /\ (/\ last'.op = "update_ticket_status_flow"
            /\ Absent(last'.tid)
            /\ last'.arg \in valid_statuses) =>
              last'.outcome = "NotFound" /\ tickets' = tickets
        /\ (/\ last'.op = "update_ticket_status_flow"
            /\ last'.outcome # "Forbidden"
            /\ last'.arg \notin valid_statuses) =>
              last'.outcome = "InvalidStatus" /\ tickets' = tickets
        /\ (last'.op = "add_comment_flow" /\ Absent(last'.tid)) =>
              last'.outcome = "NotFound" /\ tickets' = tickets
      ]_vars

\* An update with an unknown id and an unknown status was answered
\* invalid-status, with tickets in the store.
C8_Witness ==
    /\ last.op = "update_ticket_status_flow"
    /\ last.outcome = "InvalidStatus"
    /\ last.arg \notin valid_statuses
    /\ Absent(last.tid)
    /\ tickets # <<>>

IsPrefix(a, b) == Len(a) <= Len(b) /\ SubSeq(b, 1, Len(a)) = a

\* C9: across every operation the comments a ticket had are a prefix of the
\* comments it has afterwards (a delete takes one ticket out and leaves the
\* others whole); only a successful add_comment makes them longer, on one
\* ticket, by one comment at the end with the session's user and the message.
C9_CommentsAppendOnly ==
    [][ \/ /\ Len(tickets') = Len(tickets) - 1
           /\ \E k \in 1..Len(tickets) : tickets' = RemoveAt(tickets, k)
        \/ /\ Len(tickets') \in {Len(tickets), Len(tickets) + 1}
           /\ \A i \in 1..Len(tickets) :
                 IsPrefix(tickets[i].comments, tickets'[i].comments)
           /\ (\E i \in 1..Len(tickets) :
                   tickets'[i].comments # tickets[i].comments) =>
                 /\ last'.op = "add_comment_flow"
                 /\ last'.outcome = "CommentAdded"
                 /\ Len(tickets') = Len(tickets)
                 /\ \E i \in 1..Len(tickets) :
                       /\ Len(tickets'[i].comments) = Len(tickets[i].comments) + 1
                       /\ tickets'[i].comments[Len(tickets'[i].comments)].user
                              = CURRENT_USER.username
                       /\ tickets'[i].comments[Len(tickets'[i].comments)].message
                              = last'.arg
                       /\ \A j \in 1..Len(tickets) :
                             j # i => tickets'[j].comments = tickets[j].comments
      ]_vars

\* A second comment was just added behind the first one of a ticket.
C9_Witness ==
    /\ last.op = "add_comment_flow"
    /\ last.outcome = "CommentAdded"
    /\ \E i \in 1..Len(tickets) :
          /\ Len(tickets[i].comments) = 2
          /\ tickets[i].comments[2].timestamp = now
          /\ tickets[i].comments[2].message = last.arg
          /\ tickets[i].comments[1].timestamp < now

\* The fields a ticket gets at its creation.
CreationFields(t) ==
    [id |-> t.id, reporter |-> t.reporter, created_date |-> t.created_date,
     title |-> t.title, description |-> t.description, priority |-> t.priority]

\* C10: no operation changes id, reporter, creation time, title, description
\* or priority of a ticket that stays in the store (a delete takes one ticket
\* out and leaves the others whole).
C10_CreationFieldsFrozen ==
    [][ \/ /\ Len(tickets') = Len(tickets) - 1
           /\ \E k \in 1..Len(tickets) : tickets' = RemoveAt(tickets, k)
        \/ /\ Len(tickets') \in {Len(tickets), Len(tickets) + 1}
           /\ \A i \in 1..Len(tickets) :
                 CreationFields(tickets'[i]) = CreationFields(tickets[i])
      ]_vars

\* A ticket was commented on and then updated, by somebody else than its
\* reporter, later than it was created.
C10_Witness ==
    /\ last.op = "update_ticket_status_flow"
    /\ last.outcome = "Updated"
    /\ \E i \in 1..Len(tickets) :
          /\ tickets[i].id = last.tid
          /\ tickets[i].status = resolved
          /\ tickets[i].comments # <<>>
          /\ tickets[i].reporter # CURRENT_USER.username
          /\ tickets[i].created_date < now

\* C11: every stored ticket's status is new, in_progress or resolved and its
\* priority low, medium or high, so the rank tables of sort_tickets are
\* defined for it; the ticket a creation just appended has status new.
C11_StatusAndPriorityInEnum ==
    /\ \A i \in 1..Len(tickets) :
          /\ tickets[i].status \in valid_statuses
          /\ tickets[i].priority \in valid_priorities
          /\ tickets[i].status \in DOMAIN status_order
          /\ tickets[i].priority \in DOMAIN priority_order
    /\ (last.op = "create_ticket_flow" /\ last.outcome = "Created") =>
          tickets[Len(tickets)].status = new

\* A ticket was just created behind one that went through to resolved, and an
\* update to a status outside the three was refused before.
C11_Witness ==
    /\ last.op = "create_ticket_flow"
    /\ last.outcome = "Created"
    /\ Len(tickets) = 2
    /\ tickets[1].status = resolved
    /\ tickets[2].status = new

\* The username is the name of a record of the user store.
Taken(usrs, username) == \E i \in 1..Len(usrs) : usrs[i].username = username

\* C12 as stated: no two records of the user store have the same username,
\* and registering a username that is already there answers that the
\* username exists and leaves the user store as it was.
C12_DuplicateIsConflict ==
    [][ /\ \A i, j \in 1..Len(users') :
              i # j => users'[i].username # users'[j].username
        /\ (last'.op = "register_user" /\ Taken(users, last'.arg)) =>
              last'.outcome = "UsernameExists" /\ users' = users
      ]_vars

\* C12 amended: no two records of the user store have the same username;
\* registering a username that is already there leaves the user store as it
\* was, and answers that the username exists when the role typed is admin or
\* user, that the role is invalid otherwise (the role is checked first).
C12_UsernamesUnique ==
    [][ /\ \A i, j \in 1..Len(users') :
              i # j => users'[i].username # users'[j].username
        /\ (last'.op = "register_user" /\ Taken(users, last'.arg)) =>
              /\ last'.outcome \in {"UsernameExists", "InvalidRole"}
              /\ users' = users
        /\ \A in \in UsersRegisterInputs :
              (CURRENT_USER # None /\ CURRENT_USER.role = admin
                  /\ Taken(users, Strip(in[1]))) =>
                 register_user(users, CURRENT_USER, in[1], in[2], in[3])
                    = [users  |-> users,
                       result |-> IF Lower(Strip(in[3])) \in {admin, user}
                                  THEN "UsernameExists" ELSE "InvalidRole"]
      ]_vars

\* With user3 registered, a registration of a name in the store with a role
\* that does not exist was refused for its role.
C12_Witness ==
    /\ last.op = "register_user"
    /\ last.outcome = "InvalidRole"
    /\ Taken(users, last.arg)
    /\ Len(users) = 5
    /\ users[5].username = user3

UserStoreOps == {"register_user", "delete_user"}

\* C13: the user store changes only by register_user or delete_user run from
\* the admin menu in a session of role admin; in a session of role user both
\* answer that only administrators may do this and leave the user store as it
\* was; no other operation, the ticket operations included, changes it.
C13_OnlyAdminsChangeUsers ==
    [][ /\ users' # users =>
              /\ last'.op \in UserStoreOps
              /\ pc = "admin_menu"
              /\ CURRENT_USER.role = admin
        /\ last'.op \notin UserStoreOps => users' = users
        /\ (CURRENT_USER # None /\ CURRENT_USER.role = user) =>
              /\ \A in \in RegisterInputs :
                    register_user(users, CURRENT_USER, in[1], in[2], in[3])
                        = [users |-> users, result |-> "AdminOnly"]
              /\ \A u \in DeleteUserInputs, c \in ConfirmInputs :
                    delete_user(users, CURRENT_USER, u, c)
                        = [users |-> users, result |-> "AdminOnly"]
      ]_vars

\* A user created a ticket in a session that began after an admin had
\* registered user3.
C13_Witness ==
    /\ pc = "user_menu"
    /\ CURRENT_USER.role = user
    /\ last.op = "create_ticket_flow"
    /\ last.outcome = "Created"
    /\ Len(users) = 5

\* C14: delete_user given the name of the admin who runs it answers that the
\* own account cannot be deleted and leaves the user store as it was; while a
\* session is in a menu, the record it logged in with is in the user store.
C14_NoSelfDeletion ==
    [][ /\ (last'.op = "delete_user" /\ last'.arg = CURRENT_USER.username) =>
              last'.outcome = "OwnAccount" /\ users' = users
        /\ pc' \in {"admin_menu", "user_menu"} =>
              \E i \in 1..Len(users') : users'[i] = CURRENT_USER'
      ]_vars

\* user3, registered as an admin, has deleted admin and was refused the
\* deletion of user3.
C14_Witness ==
    /\ last.op = "delete_user"
    /\ last.outcome = "OwnAccount"
    /\ CURRENT_USER.username = user3
    /\ ~Taken(users, admin)

\* C15: creating a ticket from the menu with a title or a description that is
\* empty (or only blanks) answers that all fields are required and leaves the
\* store as it was, whatever the store, the session and the priority; every
\* stored ticket has a title and a description that are not empty.
C15_EmptyFieldsRejected ==
    [][ /\ InMenu =>
              \A t \in TitleInputs, d \in DescriptionInputs, p \in PriorityInputs :
                 (Strip(t) = EmptyText \/ Strip(d) = EmptyText) =>
                    LET r == CreateTicketFlow(tickets, CURRENT_USER, t, d, p,
                                              ClockReading)
                    IN  r.result = "FieldsRequired" /\ r.tickets = tickets
        /\ (last'.op = "create_ticket_flow" /\ last'.outcome = "FieldsRequired") =>
              tickets' = tickets /\ issued' = issued
        /\ \A i \in 1..Len(tickets') :
              /\ tickets'[i].title # EmptyText
              /\ tickets'[i].description # EmptyText
              /\ Strip(tickets'[i].title) = tickets'[i].title
      ]_vars

\* A creation was refused for an empty field with a valid priority typed and a
\* ticket in the store.
C15_Witness ==
    /\ last.op = "create_ticket_flow"
    /\ last.outcome = "FieldsRequired"
    /\ last.arg = high
    /\ tickets # <<>>

\* The two tickets have the same sort key.
SameKey(sort_by, a, b) == ~KeyLess(sort_by, a, b) /\ ~KeyLess(sort_by, b, a)

\* C16: what sort_tickets returns is a rearrangement of its input (out[i] is
\* the input's p[i]), ordered by the key chosen, ascending or descending as
\* asked, with tickets of equal key in the order they had in the input, in
\* both directions; for a field it does not know it returns the input.
C16_SortStablePermutation ==
    last.op = "sort_tickets" =>
        LET out == last.shown
            sort_by == last.arg.sort_by
            n == Len(tickets)
        IN  IF sort_by \notin SortFields THEN out = tickets
            ELSE /\ Len(out) = n
                 /\ \E p \in [1..n -> 1..n] :
                       /\ \A i, j \in 1..n : i # j => p[i] # p[j]
                       /\ \A i \in 1..n : out[i] = tickets[p[i]]
                       /\ \A i, j \in 1..n : i < j =>
                             /\ IF last.arg.ascending
                                THEN ~KeyLess(sort_by, out[j], out[i])
                                ELSE ~KeyLess(sort_by, out[i], out[j])
                             /\ SameKey(sort_by, out[i], out[j]) => p[i] < p[j]

\* A descending sort by priority moved a ticket in front of two of equal
\* priority, which kept their order.
C16_Witness ==
    /\ last.op = "sort_tickets"
    /\ last.arg = [sort_by |-> "priority", ascending |-> FALSE]
    /\ Len(tickets) = 3
    /\ tickets[1].priority = tickets[2].priority
    /\ last.shown = <<tickets[3], tickets[1], tickets[2]>>

\* Every character of the text is a blank.
Blank(s) == \A i \in 1..Len(s) : s[i] \in Whitespace

\* The text occurs in the other one, letters compared without their case.
Occurs(keyword, text) ==
    \E a \in 1..(Len(text) + 1), b \in 0..Len(text) :
        SubSeq(Lower(text), a, b) = Lower(keyword)

\* C17: search_tickets leaves the store as it was and returns the stored
\* tickets, in store order, all of them for a keyword that is empty or blank,
\* otherwise those whose title, description, reporter or id contains the
\* keyword, letters compared in lower case.
C17_SearchFilters ==
    [][ last'.op = "search_tickets" =>
          /\ tickets' = tickets
          /\ last'.shown =
                IF Blank(last'.arg) THEN tickets
                ELSE SelectSeq(tickets, LAMBDA t :
                         \/ Occurs(last'.arg, t.title)
                         \/ Occurs(last'.arg, t.description)
                         \/ Occurs(last'.arg, t.reporter)
                         \/ Occurs(last'.arg, t.id))
      ]_vars

\* A keyword in mixed case found the first and the third of three tickets.
C17_Witness ==
    /\ last.op = "search_tickets"
    /\ last.arg = <<"p","C">>
    /\ Len(tickets) = 3
    /\ last.shown = <<tickets[1], tickets[3]>>

\* How urgent a priority is.
Urgency == (high :> 3) @@ (medium :> 2) @@ (low :> 1)

\* C20: sort_tickets by priority with ascending = false, the menu's "high to
\* low", returns high tickets first, then medium, then low; with ascending =
\* true, "low to high", low first, then medium, then high.
C20_PriorityLabelsMatchOrder ==
    (last.op = "sort_tickets" /\ last.arg.sort_by = "priority") =>
        \A i, j \in 1..Len(last.shown) : i < j =>
            IF last.arg.ascending
            THEN Urgency[last.shown[i].priority] <= Urgency[last.shown[j].priority]
            ELSE Urgency[last.shown[i].priority] >= Urgency[last.shown[j].priority]

\* TKT-00n written out, for n from 1 to 9.
TktId(n) ==
    <<"T", "K", "T", "-", "0", "0">>
        \o <<(<<"1", "2", "3", "4", "5", "6", "7", "8", "9">>)[n]>>

\* C19: a successful creation appends exactly one ticket at the end and
\* leaves the tickets before it as they were and where they were; the new
\* ticket's id is TKT- and the number of tickets before the call plus one, in
\* three digits, TKT-001 on an empty store; its reporter is the session's
\* user, its status new, its comments empty, and the id is the one printed.
C19_CreateAppendsCountPlusOne ==
    [][ (last'.op = "create_ticket_flow" /\ last'.outcome = "Created") =>
          /\ Len(tickets') = Len(tickets) + 1
          /\ SubSeq(tickets', 1, Len(tickets)) = tickets
          /\ tickets'[Len(tickets')].id = TktId(Len(tickets) + 1)
          /\ tickets = <<>> => tickets'[1].id = <<"T", "K", "T", "-", "0", "0", "1">>
          /\ tickets'[Len(tickets')].reporter = CURRENT_USER.username
          /\ tickets'[Len(tickets')].status = new
          /\ tickets'[Len(tickets')].comments = <<>>
          /\ tickets'[Len(tickets')].priority = last'.arg
          /\ last'.tid = tickets'[Len(tickets')].id
      ]_vars

\* A ticket was created behind one that is left of two, by another user, and
\* got the number of tickets plus one, which the first one has already.
C19_Witness ==
    /\ last.op = "create_ticket_flow"
    /\ last.outcome = "Created"
    /\ Len(tickets) = 2
    /\ tickets[2].id = TktId(2)
    /\ tickets[1].id = TktId(2)
    /\ tickets[1].reporter # tickets[2].reporter

\* No operation is under way in any process.
Quiet == \A s \in Sessions : inflight[s] = Idle

\* A deletion of this ticket has been reported.
ReportedDeleted(key) ==
    \E d \in reported : d.op = "delete_ticket" /\ d.target = key

\* C18: with two sessions on one store, whose accesses to the file
\* interleave, the store at rest holds what every operation that reported
\* success did: each ticket reported created and not reported deleted, each
\* comment reported added to such a ticket, the status resolved of each such
\* ticket reported updated to it, and no ticket reported deleted; and, as
\* long as nothing was deleted, no two creations got the same id.
C18_NoUpdateLost ==
    Quiet =>
        /\ \A r \in reported :
              (r.op # "delete_ticket" /\ ~ReportedDeleted(r.target)) =>
                 \E i \in 1..Len(tickets) :
                    /\ TicketKey(tickets[i]) = r.target
                    /\ r.op = "add_comment" =>
                          \E k \in 1..Len(tickets[i].comments) :
                             CommentKey(tickets[i].comments[k]) = r.date
                    /\ r.op = "update_ticket_status" => tickets[i].status = resolved
        /\ \A r \in reported :
              r.op = "delete_ticket" =>
                 \A i \in 1..Len(tickets) : TicketKey(tickets[i]) # r.target
        /\ \A r1, r2 \in reported :
              (/\ r1.op = "create_ticket" /\ r2.op = "create_ticket"
               /\ r1.target # r2.target
               /\ \A d \in reported : d.op # "delete_ticket") =>
                 r1.id # r2.id

\* The records of the user store with role admin.
Admins(usrs) == {i \in 1..Len(usrs) : usrs[i].role = admin}

\* C21: from the four seeded users, through logins, registrations and
\* deletions in one session at a time, the user store always holds a user
\* with role admin; in an admin session that user is the one logged in.
C21_AnAdminRemains ==
    /\ Admins(users) # {}
    /\ pc = "admin_menu" =>
          \E i \in Admins(users) : users[i].username = CURRENT_USER.username

\* The only admin left was just refused the deletion of the own account.
C21_Witness ==
    /\ last.op = "delete_user"
    /\ last.outcome = "OwnAccount"
    /\ Cardinality(Admins(users)) = 1

\* The logged-in account is not one of the seeded ones: it was registered
\* during the run.
Returned ==
    /\ CURRENT_USER # None
    /\ \A i \in 1..Len(default_users) : CURRENT_USER # default_users[i]

\* C22: a registration or a deletion of a user, whatever its outcome, leaves
\* the ticket store as it was, so the tickets of a deleted user stay with
\* their reporter; and in a user session, of a seeded account or of one
\* registered later under the same username, no flow refuses a ticket whose
\* reporter is the username of the session, and every such ticket is listed
\* as one of the user's own.
C22_UserStoreOpsKeepTickets ==
    [][ /\ last'.op \in UserStoreOps \cup {"manage_users_flow"} => tickets' = tickets
        /\ (pc = "user_menu" /\ AtPrompt) =>
              /\ \A id \in TicketIdInputs :
                    (/\ get_ticket(tickets, Strip(id)) # None
                     /\ get_ticket(tickets, Strip(id)).reporter = CURRENT_USER.username)
                    => /\ ~ NotMine(tickets, CURRENT_USER, Strip(id))
                       /\ DeleteMyTicketFlow(tickets, CURRENT_USER, id, yes).result
                              = "Deleted"
              /\ (/\ last'.op \in UserTicketOps \cup {"view_my_tickets_flow"}
                  /\ last'.tid # <<>>
                  /\ get_ticket(tickets, last'.tid) # None
                  /\ get_ticket(tickets, last'.tid).reporter = CURRENT_USER.username)
                    => last'.outcome \notin {"Forbidden", "AccessDenied"}
              /\ last'.op = "view_my_tickets_flow" =>
                    \A i \in 1..Len(tickets) :
                        tickets[i].reporter = CURRENT_USER.username =>
                            \E j \in 1..Len(last'.shown) : last'.shown[j] = tickets[i]
      ]_vars

\* user1 was deleted and registered again with another password, logged in
\* with it and resolved the ticket that the first user1 had reported.
C22_Witness ==
    /\ Returned
    /\ CURRENT_USER.username = user1
    /\ \A i \in 1..Len(users) : users[i].username = user1 => users[i].password = pass2
    /\ last.op = "update_ticket_status_flow"
    /\ last.outcome = "Updated"
    /\ last.tid = FormatId(1)
    /\ tickets # <<>>
    /\ tickets[1].reporter = user1
    /\ tickets[1].created_date = 1
    /\ tickets[1].status = resolved

====
